---- MODULE Spec2Model ----
(***************************************************************************)
(* Model of src/video_editor.py: the VideoProcessor worker thread          *)
(* (process_preview, process_videos), the signals it emits through Qt's    *)
(* queued connections, and the VideoEditorApp handlers that drive it.      *)
(***************************************************************************)
EXTENDS Integers, Sequences, FiniteSets, TLC

\* ------------------------------------------------------------------ bounds
\* longest video_files list handed to a worker
MaxFiles == 2
\* VideoProcessor objects the application creates in one run
MaxWorkers == 2
\* signals posted to an idle GUI thread and not yet delivered when a worker
\* takes its next step
MaxPending == 0

\* largest number of files of a batch whose progress values are computed
MaxTotal == 50
\* largest frame width and height, largest requested offset, largest side of
\* a resized header image
MaxW == 2
MaxH == 11
MaxOffset == 2
MaxImg == 2

\* --------------------------------------------------------------- constants
\* IEEE-754 double: bits of the significand of a Python float
MantBits == 53
\* the factor of int((idx / total_files) * 100)
Percent == 100
\* offset = min(self.offset, video_height - 10)
MinVisible == 10

\* ------------------------------------------------------------------- paths
\* A video path is <<directory, stem, extension>>.
Paths == { <<"a", "x", ".mp4">>, <<"b", "x", ".mp4">>, <<"a", "y", ".avi">> }

NoFile == <<"", "", "">>

\* os.path.basename(video_path)
basename(p) == <<"", p[2], p[3]>>

\* os.path.join(self.output_dir, f"{name}_processed{ext}") with
\* name, ext = os.path.splitext(os.path.basename(video_path))
output_file(p) == <<"out", p[2] \o "_processed", p[3]>>

RECURSIVE SeqsUpTo(_, _)
SeqsUpTo(S, n) ==
  IF n = 0 THEN { <<>> }
  ELSE LET T == SeqsUpTo(S, n - 1)
       IN T \cup { Append(t, s) : t \in { u \in T : Len(u) = n - 1 }, s \in S }

Range(s) == { s[i] : i \in 1..Len(s) }

Min(a, b) == IF a < b THEN a ELSE b
Max(a, b) == IF a > b THEN a ELSE b

\* ------------------------------------------------------ float arithmetic
\* Python evaluates int((idx / total_files) * 100) in IEEE-754 doubles with
\* round-to-nearest-even.  A significand is a sequence of bits, most
\* significant first; a double is [m |-> significand, e |-> E] with value
\* m * 2^(-E).

RECURSIVE Pow2(_)
Pow2(n) == IF n = 0 THEN 1 ELSE 2 * Pow2(n - 1)

\* the value of at most 30 bits
BitsValue(bits) ==
  LET n == Len(bits)
      RECURSIVE Sum(_)
      Sum(i) == IF i = 0 THEN 0 ELSE 2 * Sum(i - 1) + bits[i]
  IN Sum(n)

\* bits + 1, with the carry out of the top bit
BitsInc(bits) ==
  LET n     == Len(bits)
      zeros == { i \in 1..n : bits[i] = 0 }
      k     == CHOOSE i \in zeros : \A j \in zeros : j <= i
  IN IF zeros = {}
     THEN [m |-> [i \in 1..n |-> 0], carry |-> 1]
     ELSE [m |-> [i \in 1..n |-> IF i < k THEN bits[i] ELSE IF i = k THEN 1 ELSE 0],
           carry |-> 0]

\* round-to-nearest-even of a significand followed by a guard bit and a
\* sticky flag; on carry out the significand becomes 1000...0
RoundNearestEven(bits, guard, sticky) ==
  IF guard = 1 /\ (sticky \/ bits[Len(bits)] = 1)
  THEN LET inc == BitsInc(bits)
       IN IF inc.carry = 1
          THEN [m |-> <<1>> \o SubSeq(inc.m, 1, Len(bits) - 1), carry |-> 1]
          ELSE [m |-> inc.m, carry |-> 0]
  ELSE [m |-> bits, carry |-> 0]

\* (r * 2^n) % d
RECURSIVE ShiftMod(_, _, _)
ShiftMod(r, n, d) ==
  IF n = 0 THEN r % d
  ELSE LET h == ShiftMod(r, n \div 2, d)
           q == ShiftMod(1, n \div 2, d)
       IN IF n % 2 = 0 THEN (h * q) % d ELSE (2 * ((h * q) % d)) % d

\* n more bits of the binary expansion of r / d (r < d), and the remainder
DivBits(r, d, n) ==
  [bits |-> [i \in 1..n |-> IF 2 * ShiftMod(r, i - 1, d) >= d THEN 1 ELSE 0],
   rem  |-> ShiftMod(r, n, d)]

\* zero bits before the first one bit of the expansion of r / d (0 < r < d)
RECURSIVE LeadingZeros(_, _)
LeadingZeros(r, d) == IF 2 * r >= d THEN 0 ELSE 1 + LeadingZeros(2 * r, d)

\* idx / total_files for 0 < idx < total_files
FloatDiv(a, d) ==
  LET z    == LeadingZeros(a, d)
      q    == DivBits(a * Pow2(z), d, MantBits)
      g    == DivBits(q.rem, d, 1)
      rnd  == RoundNearestEven(q.bits, g.bits[1], g.rem # 0)
  IN [m |-> rnd.m, e |-> MantBits + z - rnd.carry]

\* the bits as digits of base 2^8, least significant digit first
Digits(bits) ==
  LET n   == Len(bits)
      nd  == (n + 7) \div 8
      pad == 8 * nd - n
      b(i) == IF i <= pad THEN 0 ELSE bits[i - pad]
  IN [j \in 1..nd |->
        BitsValue([i \in 1..8 |-> b(8 * (nd - j) + i)])]

\* digits * k + carry for a small integer k, least significant digit first
RECURSIVE MulDigits(_, _, _)
MulDigits(digs, k, carry) ==
  IF digs = <<>>
  THEN IF carry = 0 THEN <<>> ELSE <<carry % Pow2(8)>> \o MulDigits(<<>>, k, carry \div Pow2(8))
  ELSE LET t == digs[1] * k + carry
       IN <<t % Pow2(8)>> \o MulDigits(Tail(digs), k, t \div Pow2(8))

\* the bits of the digits, without leading zeros
DigitsBits(digs) ==
  LET nd   == Len(digs)
      b(i) == (digs[nd - ((i - 1) \div 8)] \div Pow2(7 - ((i - 1) % 8))) % 2
      ones == { i \in 1..(8 * nd) : b(i) = 1 }
      f    == CHOOSE i \in ones : \A j \in ones : i <= j
  IN IF ones = {} THEN <<>>
     ELSE [i \in 1..(8 * nd - f + 1) |-> b(f + i - 1)]

\* x * k for a double x and a small integer k > 0
FloatMulSmall(x, k) ==
  LET p    == DigitsBits(MulDigits(Digits(x.m), k, 0))
      L    == Len(p)
      rest == SubSeq(p, MantBits + 2, L)
      rnd  == RoundNearestEven(SubSeq(p, 1, MantBits),
                               IF L > MantBits THEN p[MantBits + 1] ELSE 0,
                               \E i \in 1..Len(rest) : rest[i] = 1)
  IN IF L <= MantBits THEN [m |-> p, e |-> x.e]
     ELSE [m |-> rnd.m, e |-> x.e - (L - MantBits) - rnd.carry]

\* int(x) for a double x >= 0
FloatToInt(x) ==
  IF x.e <= 0 THEN BitsValue(x.m) * Pow2(0 - x.e)
  ELSE IF x.e >= Len(x.m) THEN 0
  ELSE BitsValue(SubSeq(x.m, 1, Len(x.m) - x.e))

\* progress = int((idx / total_files) * 100)
progress_of(idx, total_files) ==
  IF idx = 0 THEN 0
  ELSE IF idx = total_files THEN Percent
  ELSE FloatToInt(FloatMulSmall(FloatDiv(idx, total_files), Percent))


\* ------------------------------------------------------------------ state
VARIABLES
  video_files,   \* VideoEditorApp.video_files
  output_dir,    \* VideoEditorApp.output_dir is set
  header,        \* <<h1, h2>>: what header_img<k>_path names (see Images)
  processor,     \* VideoEditorApp.processor: index into workers, 0 for None
  export_btn,    \* export_btn.isEnabled()
  progress_bar,  \* progress_bar.value()
  gui,           \* where the GUI thread is: "idle", blocked in wait(), "closed"
  workers,       \* the VideoProcessor objects created so far
  queue,         \* signals posted to the GUI thread and not yet delivered
  received,      \* per worker: its signals delivered to the slots, in delivery order
  disk,          \* files in the output directory
  comp,          \* one composition: its parameters and its result
  prog           \* one pass of the progress computation

appVars == <<video_files, output_dir, header, processor, export_btn, progress_bar, gui>>
jobVars == <<workers, queue, received, disk>>
vars == <<video_files, output_dir, header, processor, export_btn, progress_bar, gui,
          workers, queue, received, disk, comp, prog>>

\* ----------------------------------------------------------------- signals
\* A signal emission: the signal, the message template (kind), the numbers
\* and the file name formatted into the message, and the loop iteration
\* (1-based, 0 outside the loop) that emitted it.
Ev(sig, kind, num, file, item) ==
  [sig |-> sig, kind |-> kind, num |-> num, file |-> file, item |-> item]

progress_updated(n, item)     == Ev("progress_updated", "", n, NoFile, item)
processing_finished(n)        == Ev("processing_finished", "all_done", n, NoFile, 0)
preview_frame_ready           == Ev("preview_frame_ready", "", 0, NoFile, 0)
error_occurred(kind, n, f, i) == Ev("error_occurred", kind, n, f, i)

\* ------------------------------------------------------------------ worker
\* VideoProcessor.__init__
VideoProcessor(files, hdr, preview_only, outdir) ==
  [ video_files  |-> files,
    header    |-> hdr,
    preview_only |-> preview_only,
    output_dir   |-> outdir,
    stop_event   |-> FALSE,
    pc           |-> "created",
    idx          |-> 0,
    emitted      |-> <<>>,    \* every signal emitted, in order
    opened       |-> <<>>,    \* every path handed to VideoFileClip, in order
    results      |-> <<>>,    \* per finished loop iteration: "ok" or "error"
    clips        |-> 0,       \* VideoFileClip objects opened and not closed
    raised       |-> <<>>,    \* every exception raised in the thread, in order
    stop_at      |-> <<>> ]   \* <<pc, idx>> at the first stop()

WorkerIds == 1..Len(workers)

\* the worker thread is scheduled: the process lives, and an idle event loop
\* has caught up with the posted signals to within MaxPending
scheduled == gui # "closed" /\ (gui = "idle" => Len(queue) <= MaxPending)

\* a thread that counts as finished once stop() was called
isRunning_until_stop(w) ==
  workers[w].pc \notin {"created", "done"} /\ ~workers[w].stop_event

\* QThread.isRunning()
isRunning(w) == workers[w].pc \notin {"created", "done"}

\* stopped() of a worker that never looks at the flag
stopped_never(me) == FALSE

\* VideoProcessor.stopped
stopped(me) == me.stop_event

\* VideoProcessor.stop
stop(me) ==
  [me EXCEPT !.stop_event = TRUE,
             !.stop_at = IF me.stop_event THEN @ ELSE <<me.pc, me.idx>>]

\* a queue that hands the newest call to the receiver first
post_front(q, w, evs) == [i \in 1..Len(evs) |-> <<w, evs[Len(evs) + 1 - i]>>] \o q

\* a cross-thread emit: Qt posts the call to the receiver's thread
post(q, w, evs) == q \o [i \in 1..Len(evs) |-> <<w, evs[i]>>]

emit(me, evs) == [me EXCEPT !.emitted = @ \o evs]

\* process_videos without the output directory check
process_videos_check_files_only(me) ==
  IF me.video_files = <<>> THEN "no_files" ELSE ""

\* the input checks at the head of process_videos: the message kind of the
\* error reported, "" when the job may run
process_videos_check(me) ==
  IF me.video_files = <<>> THEN "no_files"
  ELSE IF ~me.output_dir THEN "no_output_dir"
  ELSE ""

\* an exception raised in the worker thread: where ("open", "frame",
\* "overlay", "item"), in which loop iteration (0 in a preview), and for
\* which header image (0 when none)
Exc(where, item, k) == [where |-> where, item |-> item, num |-> k]

\* a fail-fast loop: the first failing item ends the batch
item_except_fail_fast(me, p) ==
  [emit(me, << error_occurred("item_error", 0, basename(p), me.idx + 1) >>)
     EXCEPT !.raised = Append(@, Exc("item", me.idx + 1, 0)),
            !.results = Append(@, "error"), !.idx = @ + 1, !.pc = "done"]

\* a per-item except clause that swallows the exception
item_except_silent(me, p) ==
  [me EXCEPT !.raised = Append(@, Exc("item", me.idx + 1, 0)),
             !.results = Append(@, "error"), !.idx = @ + 1, !.pc = "loop"]

\* the per-item except clause: report the file, go on with the next item
item_except(me, p) ==
  [emit(me, << error_occurred("item_error", 0, basename(p), me.idx + 1) >>)
     EXCEPT !.raised = Append(@, Exc("item", me.idx + 1, 0)),
            !.results = Append(@, "error"), !.idx = @ + 1, !.pc = "loop"]

\* the exception of header image k's block, when its image raises
overlay_raised(me, k, item) ==
  IF me.header[k] = "bad" THEN << Exc("overlay", item, k) >> ELSE <<>>

\* A header image path names no file ("none": None, empty or not existing),
\* an image ImageClip or resize raises on ("bad"), or a usable image ("ok").
Images == {"none", "bad", "ok"}

\* the log lines of one "add header image k" block of process_videos:
\* nothing when the path is missing, the except clause's line when ImageClip
\* or resize raised, the success line otherwise
export_overlay_log(me, k) ==
  IF me.header[k] = "none" THEN <<>>
  ELSE IF me.header[k] = "bad" THEN << error_occurred("img_add_error", k, NoFile, me.idx + 1) >>
  ELSE << error_occurred("img_added", k, NoFile, me.idx + 1) >>

\* the log lines of one "header image k" block of process_preview
preview_overlay_log(me, k) ==
  IF me.header[k] = "none" THEN <<>>
  ELSE IF me.header[k] = "bad" THEN << error_occurred("img_error", k, NoFile, 0) >>
  ELSE << error_occurred("img_loaded", k, NoFile, 0),
          error_occurred("img_size", k, NoFile, 0) >>

\* write_videofile(output_file, ...) by iteration item of worker w
written(d, name, w, item, complete) ==
  { f \in d : f.name # name }
    \cup { [name |-> name, w |-> w, item |-> item, complete |-> complete] }

\* QThread.start()
Start(w) ==
  /\ workers[w].pc = "created"
  /\ workers' = [workers EXCEPT ![w].pc = "started"]
  /\ UNCHANGED <<appVars, queue, received, disk, comp, prog>>

\* a caller's stop()
Stop(w) ==
  /\ ~workers[w].stop_event
  /\ workers[w].pc # "done"
  /\ workers' = [workers EXCEPT ![w] = stop(@)]
  /\ UNCHANGED <<appVars, queue, received, disk, comp, prog>>

\* run() -> process_preview, up to the opened clip
ProcessPreviewOpen(w) ==
  LET me == workers[w] IN
  /\ scheduled
  /\ me.pc = "started"
  /\ me.preview_only
  /\ IF me.video_files = <<>>
     THEN LET evs == << error_occurred("no_files", 0, NoFile, 0) >>
          IN /\ workers' = [workers EXCEPT ![w] = [emit(me, evs) EXCEPT !.pc = "done"]]
             /\ queue' = post(queue, w, evs)
     ELSE \E ok \in BOOLEAN :
          LET p   == me.video_files[1]
              evs == IF ok THEN << error_occurred("loaded", 0, basename(p), 0),
                                   error_occurred("size", 0, NoFile, 0) >>
                     ELSE << error_occurred("open_error", 0, NoFile, 0) >>
          IN /\ workers' = [workers EXCEPT ![w] =
                  [emit(me, evs) EXCEPT !.opened = Append(@, p),
                                        !.raised = IF ok THEN @
                                                   ELSE Append(@, Exc("open", 0, 0)),
                                        !.clips = IF ok THEN @ + 1 ELSE @,
                                        !.pc = IF ok THEN "preview" ELSE "done"]]
             /\ queue' = post(queue, w, evs)
  /\ UNCHANGED <<appVars, received, disk, comp, prog>>

\* process_preview from the frame extraction to the end
ProcessPreviewFrame(w) ==
  LET me == workers[w] IN
  /\ scheduled
  /\ me.pc = "preview"
  /\ \/ \* get_frame or the shift raised: the outer except clause
        LET evs == << error_occurred("preview_error", 0, NoFile, 0) >>
        IN /\ workers' = [workers EXCEPT ![w] =
                [emit(me, evs) EXCEPT !.raised = Append(@, Exc("frame", 0, 0)),
                                      !.pc = "done"]]
           /\ queue' = post(queue, w, evs)
     \/ LET evs == preview_overlay_log(me, 1) \o preview_overlay_log(me, 2)
                     \o << preview_frame_ready >>
        IN /\ workers' = [workers EXCEPT ![w] =
                [emit(me, evs) EXCEPT !.raised = @ \o overlay_raised(me, 1, 0)
                                                   \o overlay_raised(me, 2, 0),
                                      !.clips = @ - 1, !.pc = "done"]]
           /\ queue' = post(queue, w, evs)
  /\ UNCHANGED <<appVars, received, disk, comp, prog>>

\* run() -> process_videos, the input checks
ProcessVideosBegin(w) ==
  LET me  == workers[w]
      err == process_videos_check(me)
      evs == << error_occurred(err, 0, NoFile, 0) >>
  IN
  /\ scheduled
  /\ me.pc = "started"
  /\ ~me.preview_only
  /\ IF err # ""
     THEN /\ workers' = [workers EXCEPT ![w] = [emit(me, evs) EXCEPT !.pc = "done"]]
          /\ queue' = post(queue, w, evs)
     ELSE /\ workers' = [workers EXCEPT ![w].pc = "loop"]
          /\ queue' = queue
  /\ UNCHANGED <<appVars, received, disk, comp, prog>>

\* the head of one loop iteration: the cancellation poll, the progress and
\* the status line
LoopPoll(w) ==
  LET me    == workers[w]
      total == Len(me.video_files)
      p     == me.video_files[me.idx + 1]
      evs   == IF stopped(me)
               THEN << error_occurred("interrupted", 0, NoFile, 0) >>
               ELSE << progress_updated(progress_of(me.idx, total), me.idx + 1),
                       error_occurred("processing", me.idx + 1, basename(p), me.idx + 1) >>
  IN
  /\ scheduled
  /\ me.pc = "loop"
  /\ me.idx < total
  /\ workers' = [workers EXCEPT ![w] =
        [emit(me, evs) EXCEPT !.pc = IF stopped(me) THEN "done" ELSE "item"]]
  /\ queue' = post(queue, w, evs)
  /\ UNCHANGED <<appVars, received, disk, comp, prog>>

\* the body of one loop iteration: open, compose, write, close
ProcessItem(w) ==
  LET me   == workers[w]
      p    == me.video_files[me.idx + 1]
      out  == output_file(p)
      item == me.idx + 1
      tried == [me EXCEPT !.opened = Append(@, p)]
  IN
  /\ scheduled
  /\ me.pc = "item"
  /\ \/ \* VideoFileClip raised
        /\ workers' = [workers EXCEPT ![w] = item_except(tried, p)]
        /\ queue' = post(queue, w, SubSeq(workers'[w].emitted, Len(me.emitted) + 1,
                                          Len(workers'[w].emitted)))
        /\ disk' = disk
     \/ \E ok \in BOOLEAN, left \in BOOLEAN :
        LET evs  == << error_occurred("size", 0, NoFile, item) >>
                      \o export_overlay_log(me, 1) \o export_overlay_log(me, 2)
                      \o << error_occurred("writing", 0, basename(out), item) >>
            open == [emit(tried, evs) EXCEPT !.raised = @ \o overlay_raised(me, 1, item)
                                                        \o overlay_raised(me, 2, item),
                                             !.clips = @ + 1]
        IN /\ ok => left
           /\ workers' = [workers EXCEPT ![w] =
                IF ok
                THEN [emit(open, << error_occurred("item_done", 0, basename(out), item) >>)
                        EXCEPT !.clips = @ - 1, !.results = Append(@, "ok"),
                               !.idx = @ + 1, !.pc = "loop"]
                ELSE item_except(open, p)]
           /\ queue' = post(queue, w, SubSeq(workers'[w].emitted, Len(me.emitted) + 1,
                                             Len(workers'[w].emitted)))
           /\ disk' = IF left THEN written(disk, out, w, item, ok) ELSE disk
  /\ UNCHANGED <<appVars, received, comp, prog>>

\* an end of the loop that looks at the flag once more
LoopEnd_polling(w) ==
  LET me    == workers[w]
      total == Len(me.video_files)
      evs   == IF stopped(me)
               THEN << error_occurred("interrupted", 0, NoFile, 0) >>
               ELSE << progress_updated(Percent, 0), processing_finished(total) >>
  IN
  /\ scheduled
  /\ me.pc = "loop"
  /\ me.idx = total
  /\ workers' = [workers EXCEPT ![w] = [emit(me, evs) EXCEPT !.pc = "done"]]
  /\ queue' = post(queue, w, evs)
  /\ UNCHANGED <<appVars, received, disk, comp, prog>>

\* after the loop: the final progress and the completion signal
LoopEnd(w) ==
  LET me    == workers[w]
      total == Len(me.video_files)
      evs   == << progress_updated(Percent, 0), processing_finished(total) >>
  IN
  /\ scheduled
  /\ me.pc = "loop"
  /\ me.idx = total
  /\ workers' = [workers EXCEPT ![w] = [emit(me, evs) EXCEPT !.pc = "done"]]
  /\ queue' = post(queue, w, evs)
  /\ UNCHANGED <<appVars, received, disk, comp, prog>>

\* a completion slot that leaves the export button as it is
on_processing_finished_keep(enabled) == enabled

\* on_processing_finished: self.export_btn.setEnabled(True)
on_processing_finished(enabled) == TRUE

\* the GUI thread's event loop runs the slot of the next posted signal:
\* progress_bar.setValue, on_processing_finished, log, update_preview_image
Deliver ==
  /\ gui = "idle"
  /\ queue # <<>>
  /\ LET ev == Head(queue)[2]
     IN /\ progress_bar' = IF ev.sig = "progress_updated" THEN ev.num ELSE progress_bar
        /\ export_btn' = IF ev.sig = "processing_finished"
                          THEN on_processing_finished(export_btn) ELSE export_btn
  /\ received' = [received EXCEPT ![Head(queue)[1]] = Append(@, Head(queue)[2])]
  /\ queue' = Tail(queue)
  /\ UNCHANGED <<video_files, output_dir, header, processor, gui, workers, disk, comp, prog>>

WorkerStep(w) ==
  \/ ProcessPreviewOpen(w)
  \/ ProcessPreviewFrame(w)
  \/ ProcessVideosBegin(w)
  \/ LoopPoll(w)
  \/ ProcessItem(w)
  \/ LoopEnd(w)

\* ------------------------------------------- the worker driven by a caller
FileLists == SeqsUpTo(Paths, MaxFiles)

InitApp ==
  /\ video_files = <<>>
  /\ output_dir = FALSE
  /\ processor = 0
  /\ export_btn = TRUE
  /\ progress_bar = 0
  /\ gui = "idle"

InitIdle ==
  /\ comp = [stage |-> "none"]
  /\ prog = [stage |-> "none"]

InitWorker ==
  /\ InitApp
  /\ header = <<"none", "none">>
  /\ \E files \in FileLists, hdr \in Images \X Images,
        preview_only \in BOOLEAN, outdir \in BOOLEAN :
       workers = << VideoProcessor(files, hdr, preview_only, outdir) >>
  /\ queue = <<>>
  /\ received = << <<>> >>
  /\ disk = {}
  /\ InitIdle

NextWorker ==
  \/ Start(1)
  \/ Stop(1)
  \/ ProcessPreviewOpen(1)
  \/ ProcessPreviewFrame(1)
  \/ ProcessVideosBegin(1)
  \/ LoopPoll(1)
  \/ ProcessItem(1)
  \/ LoopEnd(1)
  \/ Deliver

SpecWorker == InitWorker /\ [][NextWorker]_vars

\* ------------------------------------------------------- VideoEditorApp
\* The file dialog shows one directory; the user takes its first n files.
Listing == << <<"a", "x", ".mp4">>, <<"a", "y", ".avi">>, <<"a", "z", ".mp4">> >>

DialogLists == { SubSeq(Listing, 1, n) : n \in 1..Min(MaxFiles, Len(Listing)) }

\* the input checks at the head of generate_preview (a warning box and
\* return when one fails)
preview_allowed(files, hdr) == files # <<>> /\ hdr[1] # "none" /\ hdr[2] # "none"

\* the input checks at the head of export_videos
export_allowed ==
  video_files # <<>> /\ output_dir /\ header[1] # "none" /\ header[2] # "none"

\* self.processor = VideoProcessor(...), the connects and
\* self.processor.start()
launch(files, hdr, preview_only, outdir) ==
  /\ Len(workers) < MaxWorkers
  /\ workers' = Append(workers, [VideoProcessor(files, hdr, preview_only, outdir)
                                   EXCEPT !.pc = "started"])
  /\ received' = Append(received, <<>>)
  /\ processor' = Len(workers) + 1

\* update_preview finds a running processor: stop() and then wait()
must_wait == processor # 0 /\ isRunning(processor)

\* select_video_files, a non-empty choice (while a job can still be started)
SelectVideoFiles ==
  /\ gui = "idle"
  /\ Len(workers) < MaxWorkers
  /\ \E files \in DialogLists : video_files' = files
  /\ UNCHANGED <<output_dir, header, processor, export_btn, progress_bar, gui,
                 jobVars, comp, prog>>

\* select_output_directory, a directory chosen (while a job can still be
\* started)
SelectOutputDirectory ==
  /\ gui = "idle"
  /\ Len(workers) < MaxWorkers
  /\ ~output_dir
  /\ output_dir' = TRUE
  /\ UNCHANGED <<video_files, header, processor, export_btn, progress_bar, gui,
                 jobVars, comp, prog>>

\* generate_preview, from the button
GeneratePreview ==
  /\ gui = "idle"
  /\ preview_allowed(video_files, header)
  /\ launch(video_files, header, TRUE, FALSE)
  /\ UNCHANGED <<video_files, output_dir, header, export_btn, progress_bar, gui,
                 queue, disk, comp, prog>>

\* update_preview with the header images hdr: from a spin box (hdr is
\* header) or at the end of select_image (hdr has the chosen image)
update_preview(hdr) ==
  /\ gui = "idle"
  /\ header' = hdr
  /\ IF must_wait
     THEN /\ workers' = [workers EXCEPT ![processor] = stop(@)]
          /\ gui' = "update_wait"
          /\ UNCHANGED <<processor, received>>
     ELSE /\ gui' = gui
          /\ IF preview_allowed(video_files, hdr)
             THEN launch(video_files, hdr, TRUE, FALSE)
             ELSE UNCHANGED <<workers, processor, received>>
  /\ UNCHANGED <<video_files, output_dir, export_btn, progress_bar,
                 queue, disk, comp, prog>>

\* a spin box's valueChanged
ParameterChanged ==
  /\ must_wait \/ preview_allowed(video_files, header)
  /\ update_preview(header)

\* select_image(k), a usable image chosen
SelectImage(k) ==
  \E h \in {"ok"} :
    /\ header[k] # h
    /\ update_preview([header EXCEPT ![k] = h])

\* wait() returns in update_preview, which goes on to generate_preview
UpdatePreviewResume ==
  /\ gui = "update_wait"
  /\ ~isRunning(processor)
  /\ gui' = "idle"
  /\ IF preview_allowed(video_files, header)
     THEN launch(video_files, header, TRUE, FALSE)
     ELSE UNCHANGED <<workers, processor, received>>
  /\ UNCHANGED <<video_files, output_dir, header, export_btn, progress_bar,
                 queue, disk, comp, prog>>

\* export_videos, from the export button, which can be clicked while it is
\* enabled
ExportVideos ==
  /\ gui = "idle"
  /\ export_btn
  /\ export_allowed
  /\ export_btn' = FALSE
  /\ progress_bar' = 0
  /\ launch(video_files, header, FALSE, output_dir)
  /\ UNCHANGED <<video_files, output_dir, header, gui, queue, disk, comp, prog>>

\* closeEvent: accepted at once, or after "Yes", stop() and wait()
CloseEvent ==
  /\ gui = "idle"
  /\ IF must_wait
     THEN /\ workers' = [workers EXCEPT ![processor] = stop(@)]
          /\ gui' = "close_wait"
     ELSE /\ workers' = workers
          /\ gui' = "closed"
  /\ UNCHANGED <<video_files, output_dir, header, processor, export_btn, progress_bar,
                 queue, received, disk, comp, prog>>

\* wait() returns in closeEvent
CloseResume ==
  /\ gui = "close_wait"
  /\ ~isRunning(processor)
  /\ gui' = "closed"
  /\ UNCHANGED <<video_files, output_dir, header, processor, export_btn, progress_bar,
                 jobVars, comp, prog>>

Init ==
  /\ InitApp
  /\ header \in {"none", "ok"} \X {"none", "ok"}
  /\ workers = <<>>
  /\ queue = <<>>
  /\ received = <<>>
  /\ disk = {}
  /\ InitIdle

Next ==
  \/ SelectVideoFiles
  \/ SelectOutputDirectory
  \/ \E k \in 1..2 : SelectImage(k)
  \/ GeneratePreview
  \/ ParameterChanged
  \/ UpdatePreviewResume
  \/ ExportVideos
  \/ CloseEvent
  \/ CloseResume
  \/ Deliver
  \/ \E w \in WorkerIds : WorkerStep(w)

Spec == Init /\ [][Next]_vars

\* ------------------------------------------------- the progress values
\* The loop of process_videos with the items left out: the value emitted at
\* the head of each iteration, and the value emitted after the loop.  idx is
\* the index of the next iteration, at the index the last value was emitted
\* for, before the value emitted before it.
InitProgress ==
  /\ InitApp
  /\ header = <<"none", "none">>
  /\ workers = <<>>
  /\ queue = <<>>
  /\ received = <<>>
  /\ disk = {}
  /\ comp = [stage |-> "none"]
  /\ \E n \in 1..MaxTotal :
       prog = [stage |-> "start", total |-> n, idx |-> 0, at |-> 0,
               value |-> 0, before |-> 0]

\* progress = int((idx / total_files) * 100); progress_updated.emit(progress)
ProgressStep ==
  /\ prog.stage \in {"start", "loop"}
  /\ prog.idx < prog.total
  /\ prog' = [prog EXCEPT !.stage = "loop",
                          !.value = progress_of(prog.idx, prog.total),
                          !.before = prog.value,
                          !.at = prog.idx,
                          !.idx = @ + 1]
  /\ UNCHANGED <<appVars, jobVars, comp>>

\* progress_updated.emit(100)
ProgressEnd ==
  /\ prog.stage = "loop"
  /\ prog.idx = prog.total
  /\ prog' = [prog EXCEPT !.value = Percent, !.before = prog.value, !.stage = "done"]
  /\ UNCHANGED <<appVars, jobVars, comp>>

NextProgress == ProgressStep \/ ProgressEnd

SpecProgress == InitProgress /\ [][NextProgress]_vars

\* ------------------------------------------------------------------ frames
\* A frame is an array [row][column] of pixels, indexed from 0.  A pixel
\* names where its colour comes from: the black background, a pixel of the
\* video frame, or a pixel of header image 1 or 2 after ImageClip.resize.
Black == <<"bg", 0, 0>>

\* np.zeros((video_height, video_width, 3))
zeros(W, H) == [r \in 0..(H - 1) |-> [c \in 0..(W - 1) |-> Black]]

\* video_clip.get_frame(frame_time)
get_frame(W, H) == [r \in 0..(H - 1) |-> [c \in 0..(W - 1) |-> <<"src", r, c>>]]

ImageName(k) == IF k = 1 THEN "img1" ELSE "img2"

\* header_img<k>.get_frame(0) of the resized image, h rows by w columns
image_array(k, w, h) ==
  [r \in 0..(h - 1) |-> [c \in 0..(w - 1) |-> <<ImageName(k), r, c>>]]

\* a Python slice bound i on a sequence of length n
SliceIndex(i, n) == IF i < 0 THEN Max(n + i, 0) ELSE Min(i, n)

\* the indices of the slice [from:upto] of a sequence of length n
Slice(from, upto, n) ==
  LET lo == SliceIndex(from, n)
      hi == SliceIndex(upto, n)
  IN [lo |-> lo, len |-> Max(hi - lo, 0)]

\* numpy's a[r0:r1, c0:c1] = block for a block of bh rows and bw columns:
\* ValueError when the block cannot be broadcast to the slice
assign(frame, W, H, r0, r1, c0, c1, block, bh, bw) ==
  LET R == Slice(r0, r1, H)
      C == Slice(c0, c1, W)
      cells == { <<r, c>> \in (0..(H - 1)) \X (0..(W - 1)) :
                   /\ R.lo <= r /\ r < R.lo + R.len
                   /\ C.lo <= c /\ c < C.lo + C.len }
  IN IF (bh # R.len /\ bh # 1) \/ (bw # C.len /\ bw # 1)
     THEN [raised |-> TRUE, frame |-> frame, cells |-> {}]
     ELSE [raised |-> FALSE,
           frame  |-> [r \in 0..(H - 1) |-> [c \in 0..(W - 1) |->
                        IF <<r, c>> \in cells
                        THEN block[IF bh = 1 THEN 0 ELSE r - R.lo][IF bw = 1 THEN 0 ELSE c - C.lo]
                        ELSE frame[r][c]]],
           cells  |-> cells]

\* offset = min(self.offset, video_height - 10)
\* moved_frame[offset:, :] = frame[:video_height-offset, :]
shift(frame, W, H, o) ==
  LET offset == Min(o, H - MinVisible)
      src    == Slice(0, H - offset, H)
      rows   == [i \in 0..(src.len - 1) |-> frame[src.lo + i]]
  IN assign(zeros(W, H), W, H, offset, H, 0, W, rows, src.len, W)

\* where cv2.resize samples a source axis of n pixels for pixel i of a
\* destination axis of m pixels: the source coordinate (i + 0.5) * n / m - 0.5
\* kept within the axis, in units of 1 / (2 * m)
SamplePos(i, n, m) == Max(0, Min((2 * i + 1) * n - m, 2 * m * (n - 1)))

\* a pixel interpolated between neighbouring pixels of a header image
Blend(px) == <<px[1] \o "~", px[2], px[3]>>

\* cv2.resize(img, (nw, nh)) of an image of h rows and w columns (bilinear
\* interpolation): the source pixel where the sample falls on one, a blend
\* of the pixels around it (named by the upper left one) otherwise
cv2_resize(img, w, h, nw, nh) ==
  [r \in 0..(nh - 1) |-> [c \in 0..(nw - 1) |->
     LET y  == SamplePos(r, h, nh)
         x  == SamplePos(c, w, nw)
         px == img[y \div (2 * nh)][x \div (2 * nw)]
     IN IF y % (2 * nh) = 0 /\ x % (2 * nw) = 0 THEN px ELSE Blend(px)]]

\* if x_pos < 0: x_pos = 0
clamp_pos(v) == IF v < 0 THEN 0 ELSE v

\* a placement that keeps the image's size whatever the frame
clamp_size_none(pos, size, limit) == size

\* if x_pos + img_w > video_width: img_w = video_width - x_pos
clamp_size(pos, size, limit) == IF pos + size > limit THEN limit - pos ELSE size

\* the result of one header-image block
OverlayResult(before, after, status, fatal, x, y, w, h, cells) ==
  [before |-> before, frame |-> after, status |-> status, fatal |-> fatal,
   x_pos |-> x, y_pos |-> y, img_w |-> w, img_h |-> h, cells |-> cells]

\* a block whose exception leaves process_preview's inner try
overlay_except_uncaught(frame) ==
  OverlayResult(frame, frame, "raised", TRUE, 0, 0, 0, 0, {})

\* the except clause of a header-image block: a log line, the frame as it was
overlay_except(frame) ==
  OverlayResult(frame, frame, "raised", FALSE, 0, 0, 0, 0, {})

\* one header-image block of process_preview on moved_frame.  ov is the
\* image (see Images), the size w x h of the resized image and the
\* requested position x, y.
preview_overlay(frame, W, H, k, ov) ==
  IF ov.image = "none" THEN OverlayResult(frame, frame, "absent", FALSE, 0, 0, 0, 0, {})
  ELSE IF ov.image = "bad" THEN overlay_except(frame)
  ELSE LET x_pos == clamp_pos(ov.x)
           y_pos == clamp_pos(ov.y)
           img_w == clamp_size(x_pos, ov.w, W)
           img_h == clamp_size(y_pos, ov.h, H)
           put   == assign(frame, W, H, y_pos, y_pos + img_h, x_pos, x_pos + img_w,
                           cv2_resize(image_array(k, ov.w, ov.h), ov.w, ov.h, img_w, img_h),
                           img_h, img_w)
       IN IF img_w > 0 /\ img_h > 0
          THEN IF put.raised THEN overlay_except(frame)
               ELSE OverlayResult(frame, put.frame, "drawn", FALSE,
                                  x_pos, y_pos, img_w, img_h, put.cells)
          ELSE OverlayResult(frame, frame, "skipped", FALSE, x_pos, y_pos, img_w, img_h, {})

\* a compositor that runs the block of header image 2 before that of image 1
preview_composite_2_first(p) ==
  LET moved == shift(get_frame(p.W, p.H), p.W, p.H, p.offset)
      o2    == preview_overlay(moved.frame, p.W, p.H, 2, p.ov2)
      o1    == preview_overlay(o2.frame, p.W, p.H, 1, p.ov1)
  IN IF moved.raised THEN [failed |-> TRUE, frame |-> <<>>, moved |-> <<>>]
     ELSE [failed |-> FALSE, frame |-> o1.frame, moved |-> moved.frame,
           o1 |-> o1, o2 |-> o2]

\* process_preview from the shift to the emitted frame: failed when the
\* outer except clause is reached, and then no frame is emitted
preview_composite(p) ==
  LET moved == shift(get_frame(p.W, p.H), p.W, p.H, p.offset)
      o1    == preview_overlay(moved.frame, p.W, p.H, 1, p.ov1)
      o2    == preview_overlay(o1.frame, p.W, p.H, 2, p.ov2)
  IN IF moved.raised THEN [failed |-> TRUE, frame |-> <<>>, moved |-> <<>>]
     ELSE IF o1.fatal \/ o2.fatal
          THEN [failed |-> TRUE, frame |-> <<>>, moved |-> moved.frame]
          ELSE [failed |-> FALSE, frame |-> o2.frame, moved |-> moved.frame,
                o1 |-> o1, o2 |-> o2]

\* the layer of header image k in process_videos: none when the path is
\* missing or the block's except clause ran
export_overlay(k, ov) ==
  IF ov.image = "ok"
  THEN << [img |-> image_array(k, ov.w, ov.h), w |-> ov.w, h |-> ov.h, x |-> ov.x, y |-> ov.y] >>
  ELSE <<>>

\* clips = [background, moved_clip] and the header images
export_clips(p) ==
  << [img |-> zeros(p.W, p.H), w |-> p.W, h |-> p.H, x |-> 0, y |-> 0],
     [img |-> get_frame(p.W, p.H), w |-> p.W, h |-> p.H,
      x |-> 0, y |-> Min(p.offset, p.H - MinVisible)] >>
    \o export_overlay(1, p.ov1) \o export_overlay(2, p.ov2)

\* a frame of CompositeVideoClip(clips, size): every layer drawn at its
\* position, later layers over earlier ones, what falls outside cut off
RECURSIVE blit(_, _, _, _)
blit(frame, clips, W, H) ==
  IF clips = <<>> THEN frame
  ELSE LET l == Head(clips)
       IN blit([r \in 0..(H - 1) |-> [c \in 0..(W - 1) |->
                  IF /\ l.y <= r /\ r < l.y + l.h
                     /\ l.x <= c /\ c < l.x + l.w
                  THEN l.img[r - l.y][c - l.x]
                  ELSE frame[r][c]]],
               Tail(clips), W, H)

\* final_clip of process_videos, one frame of it
export_composite(p) ==
  LET clips == export_clips(p)
  IN [failed |-> FALSE, frame |-> blit(zeros(p.W, p.H), clips, p.W, p.H), clips |-> clips]

NoImage == [image |-> "none", w |-> 0, h |-> 0, x |-> 0, y |-> 0]
BadImage == [image |-> "bad", w |-> 0, h |-> 0, x |-> 0, y |-> 0]

\* the header images of one composition on a W x H frame
Overlays(W, H) ==
  {NoImage, BadImage}
    \cup [image : {"ok"}, w : 0..MaxImg, h : 0..MaxImg,
          x : {0 - 1, 0, W - 1, W + 1}, y : {0 - 1, 0, H - 1, H + 1}]

\* the plain ones: no image, an image that raises, a 1 x 1 image at (0, 0)
\* and one right of the frame
PlainOverlays(W) ==
  {NoImage, BadImage,
   [image |-> "ok", w |-> 1, h |-> 1, x |-> 0, y |-> 0],
   [image |-> "ok", w |-> 1, h |-> 1, x |-> W + 1, y |-> 0]}

InitFrame ==
  /\ InitApp
  /\ header = <<"none", "none">>
  /\ workers = <<>>
  /\ queue = <<>>
  /\ received = <<>>
  /\ disk = {}
  /\ prog = [stage |-> "none"]
  /\ \E W \in 1..MaxW, H \in 1..MaxH, o \in 0..MaxOffset, preview_only \in BOOLEAN :
     \E ov1 \in Overlays(W, H), ov2 \in Overlays(W, H) :
       /\ ov1 \in PlainOverlays(W) \/ ov2 \in PlainOverlays(W)
       /\ comp = [stage |-> "params",
                  p |-> [W |-> W, H |-> H, offset |-> o, ov1 |-> ov1, ov2 |-> ov2,
                         preview_only |-> preview_only]]

\* process_preview composes the frame
ComposePreview ==
  /\ comp.stage = "params"
  /\ comp.p.preview_only
  /\ comp' = [stage |-> "preview", p |-> comp.p, out |-> preview_composite(comp.p)]
  /\ UNCHANGED <<appVars, jobVars, prog>>

\* process_videos composes the clip
ComposeExport ==
  /\ comp.stage = "params"
  /\ ~comp.p.preview_only
  /\ comp' = [stage |-> "export", p |-> comp.p, out |-> export_composite(comp.p)]
  /\ UNCHANGED <<appVars, jobVars, prog>>

NextFrame == ComposePreview \/ ComposeExport

SpecFrame == InitFrame /\ [][NextFrame]_vars

\* ------------------------------------------------------------ properties
\* a batch export that passed the input checks
IsBatch(me) == ~me.preview_only /\ me.video_files # <<>> /\ me.output_dir

Last(seq) == seq[Len(seq)]

\* the value of the last progress_updated in evs, -1 when there is none
LastProgress(evs) ==
  LET P == { i \in 1..Len(evs) : evs[i].sig = "progress_updated" }
  IN IF P = {} THEN 0 - 1
     ELSE evs[CHOOSE i \in P : \A j \in P : j <= i].num

\* item k of worker w left its output in the output directory: the file
\* is there as k wrote it, or as a later item of the same name wrote it
OutputOf(w, k) ==
  LET me  == workers[w]
      out == output_file(me.video_files[k])
  IN \E f \in disk :
       /\ f.name = out
       /\ f.w = w
       /\ \/ f.item = k /\ f.complete
          \/ f.item > k /\ output_file(me.video_files[f.item]) = out

\* C1: in a batch export of N >= 1 files with an output directory and no
\* cancellation requested, an item that raises is reported with its file
\* name, every other item is still processed and leaves its output file, the
\* last progress is 100 and the completion signal reports N.
C1_PartialFailure ==
  \A w \in WorkerIds :
    LET me == workers[w]
        N  == Len(me.video_files)
    IN (IsBatch(me) /\ ~me.stop_event /\ me.pc = "done") =>
         /\ Len(me.results) = N
         /\ me.opened = me.video_files
         /\ \A k \in 1..N :
              /\ me.results[k] = "error" =>
                   \E i \in 1..Len(me.emitted) :
                     me.emitted[i] = error_occurred("item_error", 0,
                                                    basename(me.video_files[k]), k)
              /\ me.results[k] = "ok" => OutputOf(w, k)
         /\ LastProgress(me.emitted) = Percent
         /\ Last(me.emitted) = processing_finished(N)

\* a finished batch, never cancelled, with a failed and a processed item
C1_Witness ==
  \E w \in WorkerIds :
    LET me == workers[w]
    IN /\ IsBatch(me) /\ ~me.stop_event /\ me.pc = "done"
       /\ \E j, k \in 1..Len(me.results) :
            j < k /\ me.results[j] = "error" /\ me.results[k] = "ok"

\* the flag was set after item k completed and before item k+1 was polled
CancelledAfter(me) ==
  /\ IsBatch(me)
  /\ me.stop_at # <<>>
  /\ me.stop_at[1] \in {"created", "started", "loop"}
  /\ me.stop_at[2] < Len(me.video_files)

\* C2: when the cancellation flag is set after item k completed and before
\* item k+1 is polled, the worker reports the cancellation and stops: no
\* item after k is opened or written, the outputs of items 1..k remain, and
\* neither progress 100 nor processing_finished is emitted.
C2_CancelBetweenItems ==
  \A w \in WorkerIds :
    LET me == workers[w]
        k  == me.stop_at[2]
    IN CancelledAfter(me) =>
         /\ me.pc \in {"created", "started", "loop", "done"}
         /\ me.idx = k
         /\ Len(me.opened) = k
         /\ Len(me.results) = k
         /\ \A f \in disk : f.w = w => f.item <= k
         /\ \A i \in 1..k : me.results[i] = "ok" => OutputOf(w, i)
         /\ \A i \in 1..Len(me.emitted) :
              /\ me.emitted[i].sig # "processing_finished"
              /\ me.emitted[i].sig = "progress_updated" => me.emitted[i].num < Percent
         /\ me.pc = "done" => Last(me.emitted) = error_occurred("interrupted", 0, NoFile, 0)

\* a batch cancelled between two items, after its stop
C2_Witness ==
  \E w \in WorkerIds :
    LET me == workers[w]
    IN /\ CancelledAfter(me)
       /\ me.stop_at = <<"loop", 1>>
       /\ me.results = <<"ok">>
       /\ me.pc = "done"

\* C3: at most one worker is running at any time.
C3_OneWorkerRunning ==
  Cardinality({ w \in WorkerIds : isRunning(w) }) <= 1

\* C4: a batch processes its items in input-list order, the signals of item
\* i are all emitted before those of item j > i, and the slots receive the
\* signals of one job in the order the worker emitted them.
C4_Ordered ==
  \A w \in WorkerIds :
    LET me == workers[w]
    IN /\ me.opened = SubSeq(me.video_files, 1, Len(me.opened))
       /\ \A i, j \in 1..Len(me.emitted) :
            (i < j /\ me.emitted[i].item > 0 /\ me.emitted[j].item > 0)
              => me.emitted[i].item <= me.emitted[j].item
       /\ Len(received[w]) <= Len(me.emitted)
       /\ received[w] = SubSeq(me.emitted, 1, Len(received[w]))

\* the slots have received signals of the first and of the second item of
\* one batch
C4_Witness ==
  \E w \in WorkerIds :
    /\ IsBatch(workers[w])
    /\ \E i, j \in 1..Len(received[w]) :
         received[w][i].item = 1 /\ received[w][j].item = 2

\* the job fails an input check
BadInput(me) == me.video_files = <<>> \/ (~me.preview_only /\ ~me.output_dir)

\* C5: the progress emitted before item idx of a batch of total items is
\* floor(100 * idx / total), the progress emitted after the loop is 100, and
\* the values of one job never decrease and stay within 0..100.
C5_ProgressIsFloor ==
  /\ prog.stage = "loop" => prog.value = (Percent * prog.at) \div prog.total
  /\ prog.stage = "done" => prog.value = Percent
  /\ prog.stage \in {"loop", "done"} =>
       prog.before <= prog.value /\ prog.value \in 0..Percent

\* what the loop does keep: the value is floor(100 * idx / total) or one
\* less, 100 at the end, never decreasing and within 0..100
ProgressNearFloor ==
  /\ prog.stage = "loop" =>
       \/ prog.value = (Percent * prog.at) \div prog.total
       \/ prog.value = (Percent * prog.at) \div prog.total - 1
  /\ prog.stage = "done" => prog.value = Percent
  /\ prog.stage \in {"loop", "done"} =>
       prog.before <= prog.value /\ prog.value \in 0..Percent

\* C6: a worker with an empty file list, or an export without an output
\* directory, reports one error and does nothing else: no video opened, no
\* file written, no progress, preview frame or completion signal.
C6_InputErrors ==
  \A w \in WorkerIds :
    LET me == workers[w]
    IN BadInput(me) =>
         /\ me.pc \in {"created", "started", "done"}
         /\ Len(me.emitted) <= 1
         /\ \A i \in 1..Len(me.emitted) :
              /\ me.emitted[i].sig = "error_occurred"
              /\ me.emitted[i].kind \in {"no_files", "no_output_dir"}
         /\ me.pc = "done" => Len(me.emitted) = 1
         /\ me.opened = <<>>
         /\ me.clips = 0
         /\ \A f \in disk : f.w # w

\* an export of a non-empty list without an output directory has ended
C6_Witness ==
  \E w \in WorkerIds :
    LET me == workers[w]
    IN /\ ~me.preview_only /\ me.video_files # <<>> /\ ~me.output_dir
       /\ me.pc = "done"

\* C7: the preview frame without header images has the size of the source,
\* rows [0, min(o, H-10)) black and rows [min(o, H-10), H) equal to rows
\* [0, H - min(o, H-10)) of the source, for every height H and offset o >= 0.
C7_ShiftedRows ==
  (comp.stage = "preview" /\ comp.p.ov1 = NoImage /\ comp.p.ov2 = NoImage) =>
    LET W   == comp.p.W
        H   == comp.p.H
        off == Min(comp.p.offset, H - MinVisible)
        f   == comp.out.frame
    IN /\ ~comp.out.failed
       /\ DOMAIN f = 0..(H - 1)
       /\ \A r \in 0..(H - 1) :
            /\ DOMAIN f[r] = 0..(W - 1)
            /\ \A c \in 0..(W - 1) :
                 f[r][c] = IF r < off THEN Black ELSE <<"src", r - off, c>>

\* the same rows for the frames of at least 10 rows
ShiftedRowsFrom10 ==
  (comp.stage = "preview" /\ comp.p.H >= MinVisible) =>
    LET W   == comp.p.W
        H   == comp.p.H
        off == Min(comp.p.offset, H - MinVisible)
        f   == comp.out.moved
    IN /\ ~comp.out.failed
       /\ DOMAIN f = 0..(H - 1)
       /\ \A r \in 0..(H - 1) :
            /\ DOMAIN f[r] = 0..(W - 1)
            /\ \A c \in 0..(W - 1) :
                 f[r][c] = IF r < off THEN Black ELSE <<"src", r - off, c>>

\* the block of header image k, with result r, kept the image inside the
\* W x H frame
OverlayInside(W, H, k, ov, r) ==
  ov.image = "ok" =>
    LET x    == Max(ov.x, 0)
        y    == Max(ov.y, 0)
        w    == IF x + ov.w > W THEN W - x ELSE ov.w
        h    == IF y + ov.h > H THEN H - y ELSE ov.h
        rect == (y..(y + h - 1)) \X (x..(x + w - 1))
    IN /\ r.status \in {"drawn", "skipped"}
       /\ r.x_pos = x /\ r.y_pos = y /\ r.img_w = w /\ r.img_h = h
       /\ (w <= 0 \/ h <= 0) => r.status = "skipped" /\ r.cells = {}
       /\ (w > 0 /\ h > 0) =>
            /\ r.status = "drawn"
            /\ x + w <= W /\ y + h <= H
            /\ r.cells = rect
       /\ r.cells \subseteq (0..(H - 1)) \X (0..(W - 1))
       /\ DOMAIN r.frame = 0..(H - 1)
       /\ \A i \in 0..(H - 1) :
            /\ DOMAIN r.frame[i] = 0..(W - 1)
            /\ \A j \in 0..(W - 1) :
                 IF <<i, j>> \in r.cells
                 THEN r.frame[i][j][1] \in {ImageName(k), ImageName(k) \o "~"}
                 ELSE r.frame[i][j] = r.before[i][j]

\* C8: a header-image block of the preview writes image pixels only inside
\* [0,W) x [0,H): a negative x or y is clamped to 0, the drawn width and
\* height are shrunk to W-x and H-y when the image would exceed the frame,
\* and an image whose clamped width or height is <= 0 is skipped without an
\* error.
C8_OverlayInsideFrame ==
  (comp.stage = "preview" /\ ~comp.out.failed) =>
    /\ OverlayInside(comp.p.W, comp.p.H, 1, comp.p.ov1, comp.out.o1)
    /\ OverlayInside(comp.p.W, comp.p.H, 2, comp.p.ov2, comp.out.o2)

\* image 1 was moved into the frame from a negative y and drawn narrower
\* than it is, image 2 lay outside the frame and was skipped
C8_Witness ==
  /\ comp.stage = "preview"
  /\ ~comp.out.failed
  /\ comp.p.ov1.image = "ok" /\ comp.p.ov1.y < 0
  /\ comp.out.o1.status = "drawn"
  /\ comp.out.o1.img_w < comp.p.ov1.w
  /\ comp.p.ov2.image = "ok"
  /\ comp.out.o2.status = "skipped"

\* a header image that draws nothing in the preview: no usable path, an
\* image whose loading or resizing raises, or a resized image without pixels
NoOpPreview(ov) == ov.image \in {"none", "bad"} \/ ov.w = 0 \/ ov.h = 0

\* a header image that adds no layer to the exported clip
NoOpExport(ov) == ov.image \in {"none", "bad"}

\* C9: a header image that is a no-op changes nothing: the frame is the one
\* composed without it (the shift-only frame when both are no-ops), the job
\* fails no more than without it, and the other image is applied as it is on
\* its own.
C9_NoOpOverlay ==
  LET p     == comp.p
      out   == comp.out
      alone == [p EXCEPT !.ov1 = NoImage, !.ov2 = NoImage]
      not1  == [p EXCEPT !.ov1 = NoImage]
      not2  == [p EXCEPT !.ov2 = NoImage]
  IN /\ comp.stage = "preview" =>
          /\ NoOpPreview(p.ov1) =>
               /\ out.failed = preview_composite(alone).failed
               /\ out.frame = preview_composite(not1).frame
               /\ ~out.failed =>
                    /\ out.o1.frame = out.moved
                    /\ out.o2 = preview_overlay(out.moved, p.W, p.H, 2, p.ov2)
          /\ NoOpPreview(p.ov2) =>
               /\ out.failed = preview_composite(alone).failed
               /\ out.frame = preview_composite(not2).frame
               /\ ~out.failed =>
                    /\ out.frame = out.o1.frame
                    /\ out.o1 = preview_overlay(out.moved, p.W, p.H, 1, p.ov1)
          /\ (NoOpPreview(p.ov1) /\ NoOpPreview(p.ov2) /\ ~out.failed) =>
               out.frame = out.moved
     /\ comp.stage = "export" =>
          /\ ~out.failed
          /\ NoOpExport(p.ov1) =>
               /\ out.frame = export_composite(not1).frame
               /\ out.clips = export_clips(alone) \o export_overlay(2, p.ov2)
          /\ NoOpExport(p.ov2) =>
               /\ out.frame = export_composite(not2).frame
               /\ out.clips = export_clips(alone) \o export_overlay(1, p.ov1)
          /\ (NoOpExport(p.ov1) /\ NoOpExport(p.ov2)) =>
               out.frame = export_composite(alone).frame

\* the block of image 1 raised and image 2 was drawn on the preview
C9_Witness ==
  /\ comp.stage = "preview"
  /\ comp.p.ov1.image = "bad"
  /\ ~comp.out.failed
  /\ comp.out.o2.status = "drawn"

\* the signal that reports exception x of worker me
ReportOf(me, x) ==
  IF x.where = "open" THEN error_occurred("open_error", 0, NoFile, 0)
  ELSE IF x.where = "frame" THEN error_occurred("preview_error", 0, NoFile, 0)
  ELSE IF x.where = "item"
       THEN error_occurred("item_error", 0, basename(me.video_files[x.item]), x.item)
  ELSE IF me.preview_only THEN error_occurred("img_error", x.num, NoFile, 0)
  ELSE error_occurred("img_add_error", x.num, NoFile, x.item)

C12_OneOutputPerInput ==
  \A w \in WorkerIds :
    LET me == workers[w]
        N  == Len(me.video_files)
    IN (IsBatch(me) /\ me.pc = "done" /\ me.results = [k \in 1..N |-> "ok"]) =>
         /\ Cardinality({ f \in disk : f.w = w }) = N
         /\ \A k \in 1..N :
              \E f \in disk :
                /\ f.w = w /\ f.item = k /\ f.complete
                /\ f.name = <<"out", me.video_files[k][2] \o "_processed", me.video_files[k][3]>>

\* C13: a preview opens only the first file, emits at most one preview
\* frame, and has closed the clip it opened when the worker has terminated.
C13_PreviewReleases ==
  \A w \in WorkerIds :
    LET me == workers[w]
    IN me.preview_only =>
         /\ Len(me.opened) <= 1
         /\ \A i \in 1..Len(me.opened) : me.opened[i] = me.video_files[1]
         /\ Cardinality({ i \in 1..Len(me.emitted) :
                            me.emitted[i].sig = "preview_frame_ready" }) <= 1
         /\ me.pc = "done" => me.clips = 0

\* what a preview does keep: one file, at most one frame, and the clip
\* closed on the path that emits the frame
PreviewOneFrame ==
  \A w \in WorkerIds :
    LET me == workers[w]
    IN me.preview_only =>
         /\ Len(me.opened) <= 1
         /\ \A i \in 1..Len(me.opened) : me.opened[i] = me.video_files[1]
         /\ Cardinality({ i \in 1..Len(me.emitted) :
                            me.emitted[i].sig = "preview_frame_ready" }) <= 1
         /\ (me.pc = "done" /\ me.emitted # <<>> /\ Last(me.emitted) = preview_frame_ready)
              => me.clips = 0

\* the pixels of frame f that show header image k
Covered(f, W, H, k) ==
  { <<r, c>> \in (0..(H - 1)) \X (0..(W - 1)) :
      f[r][c][1] \in {ImageName(k), ImageName(k) \o "~"} }

\* C14: for the same parameters the exported frame is the preview frame:
\* the same clamped offset, and every header image over the same pixels
\* with the same content, wherever the image is placed.
C14_ExportIsPreview ==
  (comp.stage = "preview" /\ ~comp.out.failed) =>
    LET p == comp.p
        e == export_composite(p)
    IN /\ export_clips(p)[2].y = Min(p.offset, p.H - MinVisible)
       /\ \A k \in 1..2 :
            Covered(e.frame, p.W, p.H, k) = Covered(comp.out.frame, p.W, p.H, k)
       /\ e.frame = comp.out.frame

\* what the two paths share: the exported frame is the preview frame when
\* every header image lies inside the frame (and the frame has 10 rows)
ExportIsPreviewInside ==
  LET p == comp.p
      inside(ov) == ov.image = "ok" =>
                      /\ 0 <= ov.x /\ ov.x + ov.w <= p.W
                      /\ 0 <= ov.y /\ ov.y + ov.h <= p.H
  IN (comp.stage = "preview" /\ ~comp.out.failed /\ p.H >= MinVisible
        /\ inside(p.ov1) /\ inside(p.ov2)) =>
       export_composite(p).frame = comp.out.frame

\* the pixels of the W x H frame under the layer of header image ov
LayerCells(W, H, ov) ==
  IF ov.image # "ok" THEN {}
  ELSE { <<r, c>> \in (0..(H - 1)) \X (0..(W - 1)) :
           /\ ov.y <= r /\ r < ov.y + ov.h
           /\ ov.x <= c /\ c < ov.x + ov.w }

\* C15: header image 1 is composited before header image 2 in the preview
\* and in the export: every pixel header image 2 was drawn on shows header
\* image 2, also where the two images overlap.
C15_Image2OnTop ==
  LET p == comp.p
      f == comp.out.frame
  IN /\ (comp.stage = "preview" /\ ~comp.out.failed) =>
          \A cell \in comp.out.o2.cells :
            f[cell[1]][cell[2]][1] \in {ImageName(2), ImageName(2) \o "~"}
     /\ comp.stage = "export" =>
          /\ \A cell \in LayerCells(p.W, p.H, p.ov2) :
               f[cell[1]][cell[2]][1] = ImageName(2)
          /\ p.ov2.image = "ok" =>
               Last(comp.out.clips).img = image_array(2, p.ov2.w, p.ov2.h)

\* both images were drawn on the preview frame and their rectangles overlap
C15_Witness ==
  /\ comp.stage = "preview"
  /\ ~comp.out.failed
  /\ comp.out.o1.status = "drawn"
  /\ comp.out.o2.status = "drawn"
  /\ comp.out.o1.cells \cap comp.out.o2.cells # {}

\* stop() reached the batch export me while it was processing an item
StoppedInItem(me) ==
  ~me.preview_only /\ me.stop_at # <<>> /\ me.stop_at[1] = "item"

\* C16: when stop() is called while item k of a batch is being processed,
\* item k runs to its completion or failure, no item after k is started, and
\* until the worker has terminated, which is after item k, the caller that
\* stopped it is still waiting for it.
C16_StopWaitsForItem ==
  \A w \in WorkerIds :
    LET me == workers[w]
        k  == me.stop_at[2] + 1
    IN StoppedInItem(me) =>
         /\ me.pc \in {"item", "loop", "done"}
         /\ me.pc = "item" => me.idx = k - 1 /\ Len(me.results) = k - 1
         /\ me.pc \in {"loop", "done"} =>
              /\ me.idx = k
              /\ Len(me.results) = k
              /\ me.results[k] = "ok" => OutputOf(w, k)
              /\ me.results[k] = "error" =>
                   \E i \in 1..Len(me.emitted) :
                     me.emitted[i] = error_occurred("item_error", 0,
                                                    basename(me.video_files[k]), k)
         /\ Len(me.opened) <= k
         /\ \A f \in disk : f.w = w => f.item <= k
         /\ me.pc # "done" => gui \in {"update_wait", "close_wait"} /\ processor = w

\* a batch of two was stopped during its first item, wrote that item's
\* output and ended, and the handler that waited for it has returned
C16_Witness ==
  \E w \in WorkerIds :
    LET me == workers[w]
    IN /\ StoppedInItem(me)
       /\ me.stop_at[2] = 0
       /\ Len(me.video_files) = 2
       /\ me.results = <<"ok">>
       /\ me.pc = "done"
       /\ gui = "idle"

\* an export has ended without its completion signal: cancelled, or stopped
\* by an input check
EndedUnfinished(me) ==
  /\ ~me.preview_only
  /\ me.pc = "done"
  /\ Last(me.emitted).kind \in {"interrupted", "no_files", "no_output_dir"}

Finished(evs) == \E i \in 1..Len(evs) : evs[i].sig = "processing_finished"

\* C17: the export button is disabled from the start of an export job until
\* its processing_finished is delivered, and by nothing else: it is enabled
\* exactly when every export job started so far has had its completion
\* delivered, and an export job that ended by cancellation or by an input
\* error has emitted no completion and leaves the button disabled.
C17_ExportButton ==
  /\ export_btn <=> \A w \in WorkerIds : ~workers[w].preview_only => Finished(received[w])
  /\ \A w \in WorkerIds :
       EndedUnfinished(workers[w]) => ~Finished(workers[w].emitted) /\ ~export_btn

\* an export was cancelled and has ended, all of its signals have been
\* delivered, and the button is still disabled
C17_Witness ==
  \E w \in WorkerIds :
    /\ EndedUnfinished(workers[w])
    /\ Last(workers[w].emitted).kind = "interrupted"
    /\ received[w] = workers[w].emitted
    /\ gui = "idle"
    /\ queue = <<>>
    /\ ~export_btn

\* stop() reached the batch me while its last item was being processed, or
\* after the loop
StoppedLate(me) ==
  /\ IsBatch(me)
  /\ me.stop_at # <<>>
  /\ \/ me.stop_at = <<"item", Len(me.video_files) - 1>>
     \/ me.stop_at = <<"loop", Len(me.video_files)>>

\* C18: the flag is read only at the head of a loop iteration of a batch and
\* never by a preview: a preview never reports a cancellation, and a batch
\* stopped during its last item or after the loop reports none either and
\* still ends with progress 100 and the completion signal for all N items.
C18_LateStopIgnored ==
  \A w \in WorkerIds :
    LET me == workers[w]
        N  == Len(me.video_files)
        n  == Len(me.emitted)
    IN /\ (me.preview_only \/ StoppedLate(me)) =>
            \A i \in 1..n : me.emitted[i].kind # "interrupted"
       /\ (StoppedLate(me) /\ me.pc = "done") =>
            /\ n >= 2
            /\ me.emitted[n - 1] = progress_updated(Percent, 0)
            /\ me.emitted[n] = processing_finished(N)
            /\ Len(me.results) = N

\* a batch of two was stopped during its second item and has ended
C18_Witness ==
  \E w \in WorkerIds :
    LET me == workers[w]
    IN /\ StoppedLate(me)
       /\ me.stop_at = <<"item", 1>>
       /\ me.pc = "done"

\* C10: no handler of the GUI thread is blocked in wait() while the worker
\* it waits for is processing an item.
C10_NeverBlocks ==
  gui \in {"update_wait", "close_wait"} => workers[processor].pc \notin {"item", "preview"}

====
